---- MODULE Spec2Model ----
(***************************************************************************)
(* NFL schedule page (src/app.js): week loads, status grouping of games,   *)
(* point-spread suffixes, pick recording and the live auto-refresh timer.  *)
(*                                                                         *)
(* The page is single-threaded: every handler runs to its next `await`     *)
(* atomically.  One action below is one such run: a control handler up to  *)
(* the fetch it issues, or the continuation that runs when a fetch         *)
(* settles.                                                                *)
(***************************************************************************)
EXTENDS Integers, Sequences, FiniteSets, Bags, TLC

VARIABLES
    initPc,        \* position of init(): "detect" (awaiting line 49), "ready", "failed"
    week,          \* state.week (NullWeek while null)
    maxWeeks,      \* state.maxWeeks
    selectValue,   \* WEEK_SELECT.value, a decimal digit string
    liveEventIds,  \* state.liveEventIds
    refreshTimer,  \* state.refreshTimer, the handle last returned by setInterval
    timers,        \* interval timers the browser still has active
    statusText,    \* STATUS.textContent
    grid,          \* GRID children: a sequence of sections (header + cards)
    inflight,      \* fetches not yet settled, with the call awaiting each
    last           \* history: the handler run that produced this state

vars == <<initPc, week, maxWeeks, selectValue, liveEventIds, refreshTimer,
          timers, statusText, grid, inflight, last>>

----------------------------------------------------------------------------
(* Bounds of the exploration *)

MaxInFlight == 2      \* fetches outstanding at once
MaxTimers == 2        \* interval timers active at once
MaxCalendar == 1      \* entries of the regular-season calendar, when present
MaxWeekSeen == 2      \* largest week number detected or navigated to
MaxLen == 2           \* events in a response of the card specification

(* Program constants *)

DefaultMaxWeeks == 18
NullWeek == 0
NullTimer == 0

----------------------------------------------------------------------------
(* JavaScript values that reach the spread arithmetic.  Numbers are kept   *)
(* in tenths of a point (-35 is -3.5).                                     *)

Undefined == [t |-> "undefined", v |-> 0]
Null == [t |-> "null", v |-> 0]
NaN == [t |-> "nan", v |-> 0]
Num(n) == [t |-> "number", v |-> n]

ToNumber(x) ==
    CASE x.t = "number" -> x
      [] x.t = "null" -> Num(0)
      [] OTHER -> NaN

JsNeg(x) ==
    LET n == ToNumber(x)
    IN IF n.t = "number" THEN Num(0 - n.v) ELSE NaN

parseHomeSpread(competition) ==
    LET n == ToNumber(competition.spread)
    IN IF n.t = "number" THEN n ELSE Null

Abs(n) == IF n < 0 THEN 0 - n ELSE n

prettyNum(n) ==
    IF n % 10 = 0
    THEN [neg |-> n < 0, whole |-> Abs(n) \div 10, frac |-> <<>>]
    ELSE [neg |-> n < 0, whole |-> Abs(n) \div 10, frac |-> <<Abs(n) % 10>>]

spreadSuffixForSide(homeSpread, isHome) ==
    IF homeSpread.t \in {"null", "undefined"} THEN <<>>
    ELSE LET val == IF isHome THEN homeSpread ELSE JsNeg(homeSpread)
         IN IF val.v = 0 THEN <<"PK">>
            ELSE <<IF val.v > 0 THEN "+" ELSE "", prettyNum(val.v)>>

----------------------------------------------------------------------------
(* Status classification and ordering *)

toLowerCase(s) ==
    CASE s = "IN" -> "in"
      [] s = "Post" -> "post"
      [] s = "PRE" -> "pre"
      [] OTHER -> s

getState(e) == toLowerCase(e.state)

STATUS_ORDER(s) ==
    CASE s = "post" -> 0
      [] s = "in" -> 1
      [] s = "pre" -> 2
      [] OTHER -> 3

compareEvents(a, b) ==
    LET sa == STATUS_ORDER(getState(a))
        sb == STATUS_ORDER(getState(b))
    IN IF sa # sb THEN sa - sb ELSE a.date - b.date

Front(s) == SubSeq(s, 1, Len(s) - 1)

(* An insertion that puts an event before the events it ties with *)
RECURSIVE InsertSortedBeforeTies(_, _)
InsertSortedBeforeTies(x, s) ==
    IF s = <<>> THEN <<x>>
    ELSE IF compareEvents(s[Len(s)], x) < 0
         THEN Append(s, x)
         ELSE Append(InsertSortedBeforeTies(x, Front(s)), s[Len(s)])

RECURSIVE InsertSorted(_, _)
InsertSorted(x, s) ==
    IF s = <<>> THEN <<x>>
    ELSE IF compareEvents(s[Len(s)], x) <= 0
         THEN Append(s, x)
         ELSE Append(InsertSorted(x, Front(s)), s[Len(s)])

RECURSIVE SortPrefix(_, _)
SortPrefix(evts, n) ==
    IF n = 0 THEN <<>> ELSE InsertSorted(evts[n], SortPrefix(evts, n - 1))

(* Array.prototype.sort is stable and compareEvents is a consistent        *)
(* comparator on events with valid dates, so the result is the one stable  *)
(* ordering; it is computed here by stable insertion.                      *)
sortEvents(evts) == SortPrefix(evts, Len(evts))

----------------------------------------------------------------------------
(* Utilities *)

Min(a, b) == IF a < b THEN a ELSE b
Max(a, b) == IF a > b THEN a ELSE b

clamp(n, lo, hi) == Max(lo, Min(hi, n))

(* String(i) for a positive integer, as its decimal digits *)
RECURSIVE ToDigits(_)
ToDigits(i) == IF i < 10 THEN <<i>> ELSE Append(ToDigits(i \div 10), i % 10)

(* parseInt(s, 10) of a digit string *)
RECURSIVE parseInt(_)
parseInt(s) ==
    IF Len(s) = 0 THEN NullWeek
    ELSE IF Len(s) = 1 THEN s[1]
    ELSE parseInt(Front(s)) * 10 + s[Len(s)]

----------------------------------------------------------------------------
(* Cards and sections *)

(* A card that tracks every started game, not only games in progress *)
createCardTracksStarted(event) == getState(event) \in {"in", "post"}

createCardTracks(event) == getState(event) = "in"

createCard(event) ==
    LET stateStr == toLowerCase(event.state)
        homeSpread == parseHomeSpread(event)
    IN [eventId |-> event.id,
        cls |-> CASE stateStr = "in" -> "state-live"
                  [] stateStr = "post" -> "state-final"
                  [] OTHER -> "state-upcoming",
        badge |-> CASE stateStr = "in" -> "LIVE"
                    [] stateStr = "post" -> "FINAL"
                    [] OTHER -> "UPCOMING",
        awaySuffix |-> spreadSuffixForSide(homeSpread, FALSE),
        homeSuffix |-> spreadSuffixForSide(homeSpread, TRUE),
        disabled |-> ~(stateStr = "pre"),
        selectedSide |-> "",
        event |-> event]

groupKey(e) == IF getState(e) \in {"post", "in", "pre"} THEN getState(e) ELSE "pre"

groupOf(events, key) == SelectSeq(events, LAMBDA e : groupKey(e) = key)

section(label, list) ==
    IF Len(list) = 0 THEN <<>>
    ELSE << [label |-> label, count |-> Len(list),
             cards |-> [i \in 1..Len(list) |-> createCard(list[i])]] >>

renderGrid(events) ==
    section("Final", groupOf(events, "post"))
        \o section("Live", groupOf(events, "in"))
        \o section("Upcoming", groupOf(events, "pre"))

renderLive(events) ==
    {events[i].id : i \in {j \in 1..Len(events) : createCardTracks(events[j])}}

(* Array.isArray(data?.events) ? sortEvents(data.events) : [] *)
eventsOf(data) == IF data.isArray THEN sortEvents(data.events) ELSE <<>>

----------------------------------------------------------------------------
(* Status texts *)

LoadingCurrent == [kind |-> "Loading current week"]
FailedCurrent == [kind |-> "Failed to load current week"]
LoadingWeek(n) == [kind |-> "Loading Week", week |-> n]
NoGames(n) == [kind |-> "No games found", week |-> n]
Showing(c, n) == [kind |-> "Showing", count |-> c, week |-> n]

----------------------------------------------------------------------------
(* Scoreboard responses *)

SessionStates == {"pre", "in", "post", ""}
RawStates == {"pre", "in", "post", "IN", ""}
RawSpreads == {Undefined, Null, Num(-35)}
Kickoffs == {1, 2}

(* A response's events: event i of the list has id i *)
EventList(f, w) ==
    [i \in DOMAIN f |-> [id |-> i, state |-> f[i][1], date |-> f[i][2],
                         spread |-> f[i][3], fetchedWeek |-> w]]

RichEvents == RawStates \X Kickoffs \X RawSpreads

Body(list) == [isArray |-> TRUE, events |-> list]
NoEventsField == [isArray |-> FALSE, events |-> <<>>]

(* The session sees responses of these shapes (the states of the events,   *)
(* in response order); the card specification sees every list up to MaxLen *)
SessionShapes ==
    {<<>>, <<"pre">>, <<"in">>, <<"post">>, <<"">>, <<"pre", "in">>, <<"in", "post">>}

ResponsesFor(w) ==
    {NoEventsField} \cup
    {Body(EventList([i \in 1..Len(sh) |-> <<sh[i], 1, Undefined>>], w)) :
        sh \in SessionShapes}

ResponseTable == [w \in 1..MaxWeekSeen |-> ResponsesFor(w)]
Responses(w) == ResponseTable[w]

(* What a continuation computes from a response body: the sorted events    *)
(* (lines 107, 387) and, when it renders, the children of GRID and the     *)
(* ids renderEvents leaves in liveEventIds (lines 123-161).                *)
Outcome(data) ==
    [events |-> eventsOf(data),
     grid |-> renderGrid(eventsOf(data)),
     live |-> renderLive(eventsOf(data))]

SessionOutcome == [w \in 1..MaxWeekSeen |-> [data \in Responses(w) |-> Outcome(data)]]

----------------------------------------------------------------------------
(* Fetches in flight.  A load remembers whether its loadWeek() promise is   *)
(* awaited inside init()'s try block (line 91) or dropped by a control     *)
(* handler (lines 81, 84, 87, 89); every fetch remembers the week its URL  *)
(* was built with.                                                         *)

LoadCall(flow, w) == [kind |-> "load", awaited |-> (flow = "init"), week |-> w]
TickCall(w) == [kind |-> "tick", awaited |-> FALSE, week |-> w]

Pending == BagToSet(inflight)
PendingLoads == {c \in Pending : c.kind = "load"}
PendingTicks == {c \in Pending : c.kind = "tick"}
NumLoads == BagCardinality([c \in PendingLoads |-> inflight[c]])
Issue(call) == inflight (+) SetToBag({call})
Settle(call) == inflight (-) SetToBag({call})

(* setInterval returns a handle no active timer has.  Its one caller       *)
(* (line 118) stores it in state.refreshTimer at once, so the handle it    *)
(* replaces is never used again and its number is free to be handed out.   *)
NewTimerId ==
    CHOOSE n \in 1..(Cardinality(timers) + 1) :
        /\ n \notin timers
        /\ \A m \in 1..(n - 1) : m \in timers

clearInterval(handle) == timers \ {handle}

Init ==
    /\ initPc = "detect"
    /\ week = NullWeek
    /\ maxWeeks = DefaultMaxWeeks
    /\ selectValue = <<>>
    /\ liveEventIds = {}
    /\ refreshTimer = NullTimer
    /\ timers = {}
    /\ statusText = LoadingCurrent
    /\ grid = <<>>
    /\ inflight = EmptyBag
    /\ last = [op |-> "init"]

----------------------------------------------------------------------------
(* loadWeek() up to its await: lines 99-105 *)

loadWeek(flow, w) ==
    /\ timers' = clearInterval(refreshTimer)
    /\ liveEventIds' = {}
    /\ statusText' = LoadingWeek(w)
    /\ grid' = <<>>
    /\ inflight' = Issue(LoadCall(flow, w))
    /\ last' = [op |-> "start"]
    /\ UNCHANGED refreshTimer

(* The user keeps clicking only while the exploration bounds allow it *)
CanStart ==
    /\ BagCardinality(inflight) < MaxInFlight
    /\ Cardinality(clearInterval(refreshTimer)) + NumLoads < MaxTimers

(* init(): the detection fetch resolved; lines 50-91 up to loadWeek's await *)
DetectOk(currentWeek, calendarLen) ==
    /\ initPc = "detect"
    /\ maxWeeks' = IF calendarLen > 0 THEN calendarLen ELSE maxWeeks
    /\ week' = clamp(IF currentWeek = 0 THEN 1 ELSE currentWeek, 1, maxWeeks')
    /\ selectValue' = ToDigits(week')
    /\ initPc' = "ready"
    /\ loadWeek("init", week')

(* init(): the detection fetch failed; lines 92-95 *)
DetectFail ==
    /\ initPc = "detect"
    /\ initPc' = "failed"
    /\ statusText' = FailedCurrent
    /\ last' = [op |-> "detectFail"]
    /\ UNCHANGED <<week, maxWeeks, selectValue, liveEventIds, refreshTimer,
                   timers, grid, inflight>>

(* WEEK_SELECT "change": lines 79-82 *)
ChangeWeek(option) ==
    /\ initPc = "ready"
    /\ CanStart
    /\ option \in 1..Min(maxWeeks, MaxWeekSeen)
    /\ ToDigits(option) # selectValue
    /\ selectValue' = ToDigits(option)
    /\ week' = parseInt(selectValue')
    /\ loadWeek("change", week')
    /\ UNCHANGED <<initPc, maxWeeks>>

(* PREV_BTN "click": lines 83-85 *)
PrevWeek ==
    /\ initPc = "ready"
    /\ CanStart
    /\ week > 1
    /\ week' = week - 1
    /\ selectValue' = ToDigits(week')
    /\ loadWeek("prev", week')
    /\ UNCHANGED <<initPc, maxWeeks>>

(* A next handler that does not stop at the last week *)
NextWeekUnguarded ==
    /\ initPc = "ready"
    /\ CanStart
    /\ week < MaxWeekSeen
    /\ week' = week + 1
    /\ selectValue' = ToDigits(week')
    /\ loadWeek("next", week')
    /\ UNCHANGED <<initPc, maxWeeks>>

(* NEXT_BTN "click": lines 86-88 *)
NextWeek ==
    /\ initPc = "ready"
    /\ CanStart
    /\ week < MaxWeekSeen
    /\ week < maxWeeks
    /\ week' = week + 1
    /\ selectValue' = ToDigits(week')
    /\ loadWeek("next", week')
    /\ UNCHANGED <<initPc, maxWeeks>>

(* REFRESH_BTN "click": line 89 *)
Refresh ==
    /\ initPc = "ready"
    /\ CanStart
    /\ loadWeek("refresh", week)
    /\ UNCHANGED <<initPc, week, maxWeeks, selectValue>>

(* loadWeek() after its await, the fetch having resolved: lines 107-119 *)
loadWeekResolved(call, data, out) ==
    LET events == out.events
        live == out.live
    IN /\ call \in PendingLoads
       /\ inflight' = Settle(call)
       /\ IF Len(events) = 0
          THEN /\ statusText' = NoGames(week)
               /\ last' = [op |-> "loadEmpty"]
               /\ UNCHANGED <<liveEventIds, grid, refreshTimer, timers>>
          ELSE /\ statusText' = Showing(Len(events), week)
               /\ grid' = out.grid
               /\ liveEventIds' = live
               /\ last' = [op |-> "loadRender", input |-> data.events]
               /\ IF live # {}
                  THEN /\ refreshTimer' = NewTimerId
                       /\ timers' = timers \cup {NewTimerId}
                  ELSE UNCHANGED <<refreshTimer, timers>>
       /\ UNCHANGED <<initPc, week, maxWeeks, selectValue>>

(* loadWeek() after its await, the fetch having failed (fetchJSON throws,  *)
(* lines 403-404).  Only init() awaits loadWeek() inside a try (91-95);    *)
(* the control handlers drop the promise (81, 84, 87, 89).                 *)
loadWeekRejected(call) ==
    /\ call \in PendingLoads
    /\ inflight' = Settle(call)
    /\ IF call.awaited
       THEN /\ statusText' = FailedCurrent
            /\ last' = [op |-> "loadFail", caught |-> TRUE]
       ELSE /\ statusText' = statusText
            /\ last' = [op |-> "loadFail", caught |-> FALSE]
    /\ UNCHANGED <<initPc, week, maxWeeks, selectValue, liveEventIds,
                   refreshTimer, timers, grid>>

(* An interval timer fires: refreshLive() up to its await, lines 384-386 *)
Tick(timer) ==
    /\ timer \in timers
    /\ BagCardinality(inflight) < MaxInFlight
    /\ inflight' = Issue(TickCall(week))
    /\ last' = [op |-> "tick"]
    /\ UNCHANGED <<initPc, week, maxWeeks, selectValue, liveEventIds,
                   refreshTimer, timers, statusText, grid>>

(* refreshLive() after its await, the fetch having resolved: lines 387-391 *)
refreshLiveResolved(call, data, out) ==
    LET events == out.events
        live == out.live
    IN /\ call \in Pending
       /\ call.kind = "tick"
       /\ inflight' = Settle(call)
       /\ grid' = out.grid
       /\ liveEventIds' = live
       /\ timers' = IF live = {} THEN clearInterval(refreshTimer) ELSE timers
       /\ last' = [op |-> "tickRender", input |-> data.events]
       /\ UNCHANGED <<initPc, week, maxWeeks, selectValue, refreshTimer,
                      statusText>>

(* refreshLive() after its await, the fetch having failed: lines 392-394 *)
refreshLiveRejected(call) ==
    /\ call \in Pending
    /\ call.kind = "tick"
    /\ inflight' = Settle(call)
    /\ last' = [op |-> "tickFail"]
    /\ UNCHANGED <<initPc, week, maxWeeks, selectValue, liveEventIds,
                   refreshTimer, timers, statusText, grid>>

(* The payload recordPick() posts: lines 252-277 *)
recordPick(event, selectionHomeAway) ==
    LET homeSpread == parseHomeSpread(event)
    IN [eventId |-> event.id,
        weekNumber |-> week,
        spread |-> IF selectionHomeAway = "home" THEN homeSpread
                   ELSE JsNeg(homeSpread),
        selectionHomeAway |-> selectionHomeAway]

(* A team button's "click" listener: lines 216-223, applySelection 433-445 *)
Pick(s, c, side) ==
    /\ s \in DOMAIN grid
    /\ c \in DOMAIN grid[s].cards
    /\ ~grid[s].cards[c].disabled
    /\ grid' = [grid EXCEPT ![s].cards[c].selectedSide = side]
    /\ last' = [op |-> "pick", event |-> grid[s].cards[c].event,
                payload |-> recordPick(grid[s].cards[c].event, side)]
    /\ UNCHANGED <<initPc, week, maxWeeks, selectValue, liveEventIds,
                   refreshTimer, timers, statusText, inflight>>

Sides == {"away", "home"}

Next ==
    \/ \E cw \in 0..MaxWeekSeen, cal \in 0..MaxCalendar : DetectOk(cw, cal)
    \/ DetectFail
    \/ \E option \in 1..MaxWeekSeen : ChangeWeek(option)
    \/ PrevWeek
    \/ NextWeek
    \/ Refresh
    \/ \E call \in PendingLoads : \E data \in Responses(call.week) :
           loadWeekResolved(call, data, SessionOutcome[call.week][data])
    \/ \E call \in PendingLoads : loadWeekRejected(call)
    \/ \E timer \in timers : Tick(timer)
    \/ \E call \in PendingTicks : \E data \in Responses(call.week) :
           refreshLiveResolved(call, data, SessionOutcome[call.week][data])
    \/ \E call \in PendingTicks : refreshLiveRejected(call)
    \/ \E s \in DOMAIN grid : \E c \in DOMAIN grid[s].cards : \E side \in Sides :
           Pick(s, c, side)

Spec == Init /\ [][Next]_vars

----------------------------------------------------------------------------
(* The card specification: one week, one load at a time, every response    *)
(* of up to MaxLen events with any state, kickoff time and odds.           *)

InitCards ==
    /\ initPc = "ready"
    /\ week = 1
    /\ maxWeeks = DefaultMaxWeeks
    /\ selectValue = ToDigits(1)
    /\ liveEventIds = {}
    /\ refreshTimer = NullTimer
    /\ timers = {}
    /\ statusText = LoadingWeek(1)
    /\ grid = <<>>
    /\ inflight = SetToBag({LoadCall("init", 1)})
    /\ last = [op |-> "start"]

NextCards ==
    \/ \E call \in PendingLoads : \E n \in 0..MaxLen : \E f \in [1..n -> RichEvents] :
           loadWeekResolved(call, Body(EventList(f, call.week)),
                            Outcome(Body(EventList(f, call.week))))
    \/ (inflight = EmptyBag /\ Refresh)
    \/ \E s \in DOMAIN grid : \E c \in DOMAIN grid[s].cards : \E side \in Sides :
           Pick(s, c, side)

SpecCards == InitCards /\ [][NextCards]_vars

----------------------------------------------------------------------------
(* What is displayed *)

RECURSIVE FlattenCards(_)
FlattenCards(sections) ==
    IF sections = <<>> THEN <<>>
    ELSE FlattenCards(Front(sections)) \o sections[Len(sections)].cards

Cards == FlattenCards(grid)

LiveCards == {i \in DOMAIN Cards : getState(Cards[i].event) = "in"}

(* The ordering the claims state: post < in < pre < anything else *)
ClaimRank(e) ==
    LET st == getState(e)
    IN IF st = "post" THEN 0 ELSE IF st = "in" THEN 1 ELSE IF st = "pre" THEN 2 ELSE 3

ClaimBucket(e) ==
    IF ClaimRank(e) = 0 THEN "Final" ELSE IF ClaimRank(e) = 1 THEN "Live" ELSE "Upcoming"

BucketPlace(label) ==
    IF label = "Final" THEN 1 ELSE IF label = "Live" THEN 2 ELSE 3

(* a is shown before b: lower rank, then earlier kickoff, then earlier in  *)
(* the response (events carry their response position as id)               *)
ShownBefore(a, b) ==
    \/ ClaimRank(a) < ClaimRank(b)
    \/ ClaimRank(a) = ClaimRank(b) /\ a.date < b.date
    \/ ClaimRank(a) = ClaimRank(b) /\ a.date = b.date /\ a.id < b.id

----------------------------------------------------------------------------
(* C1: in every reachable state at most one poll interval timer is active, *)
(* also when loads overlap.                                                *)
AtMostOneTimer == Cardinality(timers) <= 1

(* C2: when a poll tick's re-fetch has rendered no event in state "in",    *)
(* polling has stopped: no interval timer is left to fire a further tick.  *)
TickWithoutLiveStopsPolling ==
    (last.op = "tickRender" /\ liveEventIds = {}) => timers = {}

(* C3: after a render pass, from a load or from a tick, that leaves a      *)
(* non-empty Live Set, a poll timer is active.                             *)
RenderWithLiveIsPolling ==
    (last.op \in {"loadRender", "tickRender"} /\ liveEventIds # {}) => timers # {}

(* C4: the Live Set is exactly the ids of the displayed events whose       *)
(* classified state is "in"; with nothing displayed it is empty.           *)
LiveSetIsDisplayedLive ==
    liveEventIds = {Cards[i].eventId : i \in LiveCards}

LiveSetWitness ==
    /\ last.op = "tickRender"
    /\ liveEventIds # {}
    /\ \E i \in DOMAIN Cards : i \notin LiveCards

(* C5: for an event without odds both sides show an empty spread suffix    *)
(* and the payload of a pick, of either side, has spread null.             *)
NoOddsPickHasNullSpread ==
    (last.op = "pick" /\ last.event.spread = Undefined) =>
        /\ last.payload.spread = Null
        /\ \A i \in DOMAIN Cards :
               Cards[i].event = last.event =>
                   Cards[i].awaySuffix = <<>> /\ Cards[i].homeSuffix = <<>>

(* C6: a failed week load, whichever flow started it, is caught by that    *)
(* flow and shown as the "Failed to load" status text.                     *)
FailedLoadIsSurfaced ==
    last.op = "loadFail" => (last.caught /\ statusText = FailedCurrent)

(* C7: when a week load's fetch returned no events, at the end of that     *)
(* load the status text is "No games found for Week n", no card is         *)
(* displayed and no poll timer is running.                                 *)
EmptyLoadShowsNothing ==
    last.op = "loadEmpty" =>
        (statusText = NoGames(week) /\ grid = <<>> /\ timers = {})

(* C8: once startup has set the week, every step keeps the week within     *)
(* 1..maxWeeks and leaves maxWeeks as it is.                               *)
WeekStaysInRange ==
    [][initPc = "ready" =>
          /\ week \in 1..maxWeeks
          /\ week' \in 1..maxWeeks'
          /\ maxWeeks' = maxWeeks]_vars

WeekNavigatedWitness ==
    /\ initPc = "ready"
    /\ week = 1
    /\ week < maxWeeks
    /\ \E call \in PendingLoads : call.week = 2

(* C9: a load shows every fetched event as one card in one bucket, in the  *)
(* order post, in, pre, unknown, then by kickoff, ties in response order;  *)
(* buckets are Final, Live, Upcoming and an empty bucket has no header.    *)
LoadShowsSortedBuckets ==
    last.op = "loadRender" =>
        /\ Len(Cards) = Len(last.input)
        /\ \A i \in DOMAIN last.input :
               Cardinality({p \in DOMAIN Cards : Cards[p].event = last.input[i]}) = 1
        /\ \A p, q \in DOMAIN Cards :
               p < q => ShownBefore(Cards[p].event, Cards[q].event)
        /\ \A s \in DOMAIN grid :
               /\ Len(grid[s].cards) > 0
               /\ grid[s].count = Len(grid[s].cards)
               /\ \A c \in DOMAIN grid[s].cards :
                      ClaimBucket(grid[s].cards[c].event) = grid[s].label
        /\ \A s, t \in DOMAIN grid :
               s < t => BucketPlace(grid[s].label) < BucketPlace(grid[t].label)

SortedBucketsWitness ==
    /\ last.op = "loadRender"
    /\ Len(last.input) = 2
    /\ ClaimRank(last.input[1]) = 3
    /\ ClaimRank(last.input[2]) = 2
    /\ Len(grid) = 1

(* C10: a pick's payload carries the week the picked event was fetched for *)
PickCarriesFetchedWeek ==
    last.op = "pick" => last.payload.weekNumber = last.event.fetchedWeek

====
